---- MODULE Spec2Model ----
(***************************************************************************)
(* A model of emotion_recognition_wav2vec2.py: the feature cache step of   *)
(* ppf, the label vocabulary and label_to_id, the pooling strategy and the *)
(* loss selection of Wav2Vec2ForSpeechClassification.forward, and the      *)
(* padding collator.  Each component has its own specification over the    *)
(* shared variables; a component that a specification does not exercise    *)
(* stays in its initial state.                                             *)
(***************************************************************************)
EXTENDS Integers, Sequences, FiniteSets, TLC

VARIABLES
    \* ---- feature cache (ppf) ----
    fs,            \* the cache file of each split under ./features
    pc,            \* each run's position in ppf
    examples,      \* each run's examples['path'] argument
    split,         \* each run's split argument
    speech_list,   \* each run's local speech_list
    branch,        \* which branch of the os.path.exists test the run took
    last,          \* history: per split, what the last completed call returned
                   \* and the cache file as it was then
    found,         \* history: the cache file as each run's exists test found it
    decoded,       \* history: the paths each run's call has handed to
                   \* speech_file_to_array_fn, in order
    writes,        \* history: how often each run's call has entered np.save
    \* ---- label indexer ----
    train_labels,  \* the emotion column of the training split
    label_list,    \* the vocabulary, once built
    lpc,           \* position of the label script: "start" or "built"
    target,        \* the value of the last label_to_id call
    \* ---- pooling strategy alone ----
    ms_in,         \* the arguments of the last merged_strategy call
    ms_out,        \* what that call returned or raised
    \* ---- model forward ----
    pooling_mode,  \* self.pooling_mode
    num_labels,    \* self.num_labels
    problem_type,  \* self.config.problem_type
    fwd,           \* the last forward pass: its arguments and its outcome
    calls,         \* number of forward passes so far
    \* ---- collator ----
    features,      \* the batch handed to the collator
    batch,         \* what the collator returned
    \* ---- the script, top to bottom ----
    spc,           \* the statement the script is at
    main,          \* __name__ == '__main__'
    csv,           \* which index files exist under ./content/data
    prepared,      \* whether this run has imported prepare_data_paths
    n_rows,        \* len(train_dataset), len(eval_dataset)
    pp             \* train_dataset_pp, eval_dataset_pp: their columns' lengths

cacheHist == <<found, decoded, writes>>
cacheVars == <<fs, pc, examples, split, speech_list, branch, last, cacheHist>>
labelVars == <<train_labels, label_list, lpc, target>>
poolVars == <<ms_in, ms_out>>
modelVars == <<pooling_mode, num_labels, problem_type, fwd, calls>>
collateVars == <<features, batch>>
scriptVars == <<spc, main, csv, prepared, n_rows, pp>>
vars == <<cacheVars, labelVars, poolVars, modelVars, collateVars, scriptVars>>
components == <<labelVars, poolVars, modelVars, collateVars>>
notCache == <<components, scriptVars>>
notLabel == <<cacheVars, poolVars, modelVars, collateVars, scriptVars>>
notPool == <<cacheVars, labelVars, modelVars, collateVars, scriptVars>>
notModel == <<cacheVars, labelVars, poolVars, collateVars, scriptVars>>
notCollate == <<cacheVars, labelVars, poolVars, modelVars, scriptVars>>

\* ---------------------------------------------------------------- helpers

RECURSIVE SeqsUpTo(_, _)
\* All sequences over S of length 0..n.
SeqsUpTo(S, n) ==
    IF n = 0 THEN {<<>>}
    ELSE LET shorter == SeqsUpTo(S, n - 1)
         IN shorter \cup {Append(s, x) : s \in {t \in shorter : Len(t) = n - 1}, x \in S}

Range(s) == {s[i] : i \in 1..Len(s)}

\* ------------------------------------------------------------------ bounds

MaxPaths == 2      \* longest examples['path'] a call is given
MaxTrain == 4      \* longest emotion column of the training split
MaxFrames == 3     \* longest hidden-state sequence of an utterance
MaxBatch == 3      \* largest batch handed to the collator
MaxCalls == 3      \* forward passes per run of the model

\* ============================================================ feature cache

Runs == {1, 2}
Splits == {"train", "eval"}
Paths == {"a.wav", "b.wav", "bad.wav"}

\* processor.feature_extractor.sampling_rate (in kHz)
target_sampling_rate == 16

Corrupt == [ok |-> FALSE, channels |-> <<>>, rate |-> 0]

\* The audio files on disk: what torchaudio.load finds at each path.  One
\* file is already at the target rate, one is at half of it (and comes out
\* longer than the first), one cannot be decoded.
AudioFile(path) ==
    CASE path = "a.wav" -> [ok |-> TRUE, channels |-> << <<1, 2>> >>, rate |-> 16]
      [] path = "b.wav" -> [ok |-> TRUE, channels |-> << <<3, 4>> >>, rate |-> 8]
      [] OTHER -> Corrupt

RECURSIVE Repeat(_, _)
Repeat(x, n) == IF n = 0 THEN <<>> ELSE <<x>> \o Repeat(x, n - 1)

RECURSIVE Upsample(_, _)
Upsample(samples, k) ==
    IF samples = <<>> THEN <<>>
    ELSE Repeat(Head(samples), k) \o Upsample(Tail(samples), k)

\* torchaudio.transforms.Resample(orig, new): the number of samples scales by
\* new/orig (the model holds each sample for new/orig steps; new is a
\* multiple of orig for every file of AudioFile).
Resample(orig, new, channels) ==
    [c \in 1..Len(channels) |->
        IF orig = new THEN channels[c] ELSE Upsample(channels[c], new \div orig)]

\* .squeeze(): a single-channel (1, n) array becomes (n,)
Squeeze(channels) == IF Len(channels) = 1 THEN channels[1] ELSE channels

CanDecode(path) == AudioFile(path).ok

speech_file_to_array_fn(path) ==
    LET f == AudioFile(path)
    IN Squeeze(Resample(f.rate, target_sampling_rate, f.channels))

\* ---- the .npy file: np.save(filepath, speech_list) / list(np.load(f))

RECURSIVE Flatten(_)
Flatten(rows) == IF rows = <<>> THEN <<>> ELSE Head(rows) \o Flatten(Tail(rows))

SameLength(rows) == \A i, j \in 1..Len(rows) : Len(rows[i]) = Len(rows[j])

\* The rows joined end to end into one row, as np.concatenate would.
NpArrayJoined(rows) ==
    [kind |-> "2d", n |-> 1, m |-> Len(Flatten(rows)),
     data |-> Flatten(rows), items |-> <<>>]

\* np.asanyarray(speech_list): rows of one length give a 2-d numeric array,
\* ragged rows an object array of the rows (pickled, allow_pickle=True).
NpArray(rows) ==
    IF SameLength(rows)
    THEN [kind |-> "2d", n |-> Len(rows), m |-> Len(rows[1]),
          data |-> Flatten(rows), items |-> <<>>]
    ELSE [kind |-> "object", n |-> Len(rows), m |-> 0,
          data |-> <<>>, items |-> rows]

\* list(np.load(f)): the rows of the array, in order.
NpList(arr) ==
    IF arr.kind = "2d"
    THEN [i \in 1..arr.n |-> SubSeq(arr.data, (i - 1) * arr.m + 1, i * arr.m)]
    ELSE arr.items

NoArray == [kind |-> "none", n |-> 0, m |-> 0, data |-> <<>>, items |-> <<>>]
Absent == [state |-> "absent", arr |-> NoArray]
Partial == [state |-> "partial", arr |-> NoArray]
Complete(arr) == [state |-> "complete", arr |-> arr]

NoResult == [set |-> FALSE, result |-> <<>>, file |-> Absent]

PathSeqs == SeqsUpTo(Paths, MaxPaths) \ {<<>>}

CacheIdle ==
    /\ fs = [s \in Splits |-> Absent]
    /\ examples = [r \in Runs |-> <<>>]
    /\ split = [r \in Runs |-> "train"]
    /\ speech_list = [r \in Runs |-> <<>>]
    /\ branch = [r \in Runs |-> "none"]
    /\ last = [s \in Splits |-> NoResult]
    /\ found = [r \in Runs |-> Absent]
    /\ decoded = [r \in Runs |-> <<>>]
    /\ writes = [r \in Runs |-> 0]

\* ppf(examples, split) is entered (lines 171, 173).
Call(r) ==
    /\ pc[r] = "idle"
    /\ \E ps \in PathSeqs, s \in Splits :
          /\ examples' = [examples EXCEPT ![r] = ps]
          /\ split' = [split EXCEPT ![r] = s]
    /\ speech_list' = [speech_list EXCEPT ![r] = <<>>]
    /\ branch' = [branch EXCEPT ![r] = "none"]
    /\ found' = [found EXCEPT ![r] = Absent]
    /\ decoded' = [decoded EXCEPT ![r] = <<>>]
    /\ writes' = [writes EXCEPT ![r] = 0]
    /\ pc' = [pc EXCEPT ![r] = "exists"]
    /\ UNCHANGED <<fs, last, notCache>>

\* An exists test that never sees the file: every call decodes and saves.
ExistsIgnored(r) ==
    /\ pc[r] = "exists"
    /\ pc' = [pc EXCEPT ![r] = "decode"]
    /\ branch' = [branch EXCEPT ![r] = "build"]
    /\ found' = [found EXCEPT ![r] = fs[split[r]]]
    /\ UNCHANGED <<fs, examples, split, speech_list, last, decoded, writes, notCache>>

\* if os.path.exists(filepath): a file that np.save has opened exists.
Exists(r) ==
    /\ pc[r] = "exists"
    /\ IF fs[split[r]].state # "absent"
       THEN /\ pc' = [pc EXCEPT ![r] = "load"]
            /\ branch' = [branch EXCEPT ![r] = "load"]
       ELSE /\ pc' = [pc EXCEPT ![r] = "decode"]
            /\ branch' = [branch EXCEPT ![r] = "build"]
    /\ found' = [found EXCEPT ![r] = fs[split[r]]]
    /\ UNCHANGED <<fs, examples, split, speech_list, last, decoded, writes, notCache>>

\* Load that ignores the file and decodes the paths of the call.
LoadRedecode(r) ==
    /\ pc[r] = "load"
    /\ IF \A i \in 1..Len(examples[r]) : CanDecode(examples[r][i])
       THEN /\ speech_list' = [speech_list EXCEPT
                                  ![r] = [i \in 1..Len(examples[r]) |->
                                             speech_file_to_array_fn(examples[r][i])]]
            /\ pc' = [pc EXCEPT ![r] = "cached"]
       ELSE /\ pc' = [pc EXCEPT ![r] = "failed"]
            /\ UNCHANGED speech_list
    /\ decoded' = [decoded EXCEPT ![r] = examples[r]]
    /\ UNCHANGED <<fs, examples, split, branch, last, found, writes, notCache>>

\* A load that waits while the file is being written, as under a file lock.
LoadLocked(r) ==
    /\ pc[r] = "load"
    /\ fs[split[r]].state = "complete"
    /\ speech_list' = [speech_list EXCEPT ![r] = NpList(fs[split[r]].arr)]
    /\ pc' = [pc EXCEPT ![r] = "cached"]
    /\ UNCHANGED <<fs, examples, split, branch, last, cacheHist, notCache>>

\* speech_list = list(np.load(f, allow_pickle=True)); a file that is not yet
\* written in full cannot be parsed and np.load raises.
Load(r) ==
    /\ pc[r] = "load"
    /\ IF fs[split[r]].state = "complete"
       THEN /\ speech_list' = [speech_list EXCEPT ![r] = NpList(fs[split[r]].arr)]
            /\ pc' = [pc EXCEPT ![r] = "cached"]
       ELSE /\ pc' = [pc EXCEPT ![r] = "failed"]
            /\ UNCHANGED speech_list
    /\ UNCHANGED <<fs, examples, split, branch, last, cacheHist, notCache>>

\* A build that creates the cache file before it decodes: a failed decode
\* leaves the empty file behind.
DecodeAfterOpen(r) ==
    /\ pc[r] = "decode"
    /\ LET i == Len(speech_list[r]) + 1
       IN IF CanDecode(examples[r][i])
          THEN /\ speech_list' = [speech_list EXCEPT
                                     ![r] = Append(@, speech_file_to_array_fn(examples[r][i]))]
               /\ pc' = [pc EXCEPT ![r] = IF i = Len(examples[r]) THEN "save" ELSE "decode"]
               /\ UNCHANGED fs
          ELSE /\ speech_list' = [speech_list EXCEPT ![r] = <<>>]
               /\ pc' = [pc EXCEPT ![r] = "failed"]
               /\ fs' = [fs EXCEPT ![split[r]] = Partial]
    /\ decoded' = [decoded EXCEPT ![r] = Append(@, examples[r][Len(speech_list[r]) + 1])]
    /\ UNCHANGED <<examples, split, branch, last, found, writes, notCache>>

\* One element of [speech_file_to_array_fn(path) for path in examples['path']];
\* a path that cannot be decoded raises out of ppf.
Decode(r) ==
    /\ pc[r] = "decode"
    /\ LET i == Len(speech_list[r]) + 1
       IN IF CanDecode(examples[r][i])
          THEN /\ speech_list' = [speech_list EXCEPT
                                     ![r] = Append(@, speech_file_to_array_fn(examples[r][i]))]
               /\ pc' = [pc EXCEPT ![r] = IF i = Len(examples[r]) THEN "save" ELSE "decode"]
          ELSE /\ speech_list' = [speech_list EXCEPT ![r] = <<>>]
               /\ pc' = [pc EXCEPT ![r] = "failed"]
    /\ decoded' = [decoded EXCEPT ![r] = Append(@, examples[r][Len(speech_list[r]) + 1])]
    /\ UNCHANGED <<fs, examples, split, branch, last, found, writes, notCache>>

\* np.save(filepath, ...) opens the file for writing: it now exists, empty.
SaveOpen(r) ==
    /\ pc[r] = "save"
    /\ fs' = [fs EXCEPT ![split[r]] = Partial]
    /\ pc' = [pc EXCEPT ![r] = "saving"]
    /\ writes' = [writes EXCEPT ![r] = @ + 1]
    /\ UNCHANGED <<examples, split, speech_list, branch, last, found, decoded, notCache>>

\* np.save writes the array and closes the file.
SaveWrite(r) ==
    /\ pc[r] = "saving"
    /\ fs' = [fs EXCEPT ![split[r]] = Complete(NpArray(speech_list[r]))]
    /\ pc' = [pc EXCEPT ![r] = "cached"]
    /\ UNCHANGED <<examples, split, speech_list, branch, last, cacheHist, notCache>>

\* The feature cache step is over (line 153) and ppf goes on to return.
Return(r) ==
    /\ pc[r] = "cached"
    /\ last' = [last EXCEPT ![split[r]] =
                    [set |-> TRUE, result |-> speech_list[r], file |-> fs[split[r]]]]
    /\ pc' = [pc EXCEPT ![r] = "idle"]
    /\ UNCHANGED <<fs, examples, split, speech_list, branch, cacheHist, notCache>>

\* The exception has ended the script; it is run again, the files on disk
\* being what the aborted run left.
Restart(r) ==
    /\ pc[r] = "failed"
    /\ pc' = [pc EXCEPT ![r] = "idle"]
    /\ speech_list' = [speech_list EXCEPT ![r] = <<>>]
    /\ UNCHANGED <<fs, examples, split, branch, last, cacheHist, notCache>>

\* =============================================================== the script

\* The script's own run of ppf is run 1 of the feature cache.
Script == 1

NoColumns == [kind |-> "none", input_values |-> 0, labels |-> 0, len |-> 0]
NoRows == [s \in Splits |-> 0]

ScriptIdle ==
    /\ spc = "off"
    /\ main = FALSE
    /\ csv = [train |-> FALSE, test |-> FALSE]
    /\ prepared = FALSE
    /\ n_rows = NoRows
    /\ pp = [s \in Splits |-> NoColumns]

cacheOfScript == <<fs, pc, examples, split, speech_list, branch, last, cacheHist>>

\* if __name__ == '__main__' and not (os.path.exists(".../train.csv") and
\*                                    os.path.exists(".../train.csv"))
NeedsPreparation ==
    main /\ ~(csv.train /\ csv.train)

\* Line 23: the test that guards the import of prepare_data_paths.
CheckIndex ==
    /\ spc = "check_index"
    /\ spc' = IF NeedsPreparation THEN "import" ELSE "load_dataset"
    /\ UNCHANGED <<main, csv, prepared, n_rows, pp, cacheOfScript, components>>

\* import prepare_data_paths: the module writes the two index files.
PrepareDataPaths ==
    /\ spc = "import"
    /\ csv' = [train |-> TRUE, test |-> TRUE]
    /\ prepared' = TRUE
    /\ spc' = "load_dataset"
    /\ UNCHANGED <<main, n_rows, pp, cacheOfScript, components>>

\* load_dataset("csv", data_files=...) reads both index files and raises
\* when one of them is missing.
LoadDataset ==
    /\ spc = "load_dataset"
    /\ spc' = IF csv.train /\ csv.test THEN "ppf_train" ELSE "aborted"
    /\ UNCHANGED <<main, csv, prepared, n_rows, pp, cacheOfScript, components>>

\* ppf(train_dataset, 'train') at line 171, ppf(eval_dataset, 'eval') at line
\* 173 are entered.  The path column of an index file is fixed here, where
\* the script first uses it.
CallPpf ==
    /\ spc \in {"ppf_train", "ppf_eval"}
    /\ \E ps \in PathSeqs :
          /\ examples' = [examples EXCEPT ![Script] = ps]
          /\ n_rows' = [n_rows EXCEPT ![IF spc = "ppf_train" THEN "train" ELSE "eval"] = Len(ps)]
    /\ split' = [split EXCEPT ![Script] = IF spc = "ppf_train" THEN "train" ELSE "eval"]
    /\ speech_list' = [speech_list EXCEPT ![Script] = <<>>]
    /\ branch' = [branch EXCEPT ![Script] = "none"]
    /\ found' = [found EXCEPT ![Script] = Absent]
    /\ decoded' = [decoded EXCEPT ![Script] = <<>>]
    /\ writes' = [writes EXCEPT ![Script] = 0]
    /\ pc' = [pc EXCEPT ![Script] = "exists"]
    /\ spc' = "in_ppf"
    /\ UNCHANGED <<fs, last, main, csv, prepared, pp, components>>

\* Lines 153-169: one label per row of examples, one feature vector per entry
\* of speech_list (the extractor and the nested-array pass work entry by
\* entry), and ppf returns the two columns.
ReturnFromPpf ==
    /\ spc = "in_ppf"
    /\ pc[Script] = "cached"
    /\ pp' = [pp EXCEPT ![split[Script]] =
                 [kind |-> "BatchFeature",
                  input_values |-> Len(speech_list[Script]),
                  labels |-> Len(examples[Script]),
                  len |-> 0]]
    /\ last' = [last EXCEPT ![split[Script]] =
                    [set |-> TRUE, result |-> speech_list[Script],
                     file |-> fs[split[Script]]]]
    /\ pc' = [pc EXCEPT ![Script] = "idle"]
    /\ spc' = "from_dict"
    /\ UNCHANGED <<fs, examples, split, speech_list, branch, cacheHist,
                   main, csv, prepared, n_rows, components>>

\* An exception out of ppf is caught nowhere: the script ends.
RaiseFromPpf ==
    /\ spc = "in_ppf"
    /\ pc[Script] = "failed"
    /\ pc' = [pc EXCEPT ![Script] = "idle"]
    /\ spc' = "aborted"
    /\ UNCHANGED <<fs, examples, split, speech_list, branch, last, cacheHist,
                   main, csv, prepared, n_rows, pp, components>>

\* Dataset.from_dict(...) at lines 172 and 174: an Arrow table has columns of
\* one length and from_dict raises on columns of different lengths.
FromDict ==
    /\ spc = "from_dict"
    /\ LET s == split[Script]
           columns == pp[s]
       IN IF columns.input_values = columns.labels
          THEN /\ pp' = [pp EXCEPT ![s] = [columns EXCEPT !.kind = "Dataset",
                                                          !.len = columns.labels]]
               /\ spc' = IF s = "train" THEN "ppf_eval" ELSE "assert"
          ELSE /\ spc' = "aborted"
               /\ UNCHANGED pp
    /\ UNCHANGED <<main, csv, prepared, n_rows, cacheOfScript, components>>

\* assert len(train_dataset) == len(train_dataset_pp)
\* assert len(eval_dataset) == len(eval_dataset_pp)
AssertLengths ==
    /\ spc = "assert"
    /\ spc' = IF \A s \in Splits : n_rows[s] = pp[s].len THEN "concatenate" ELSE "aborted"
    /\ UNCHANGED <<main, csv, prepared, n_rows, pp, cacheOfScript, components>>

\* concatenate_datasets([train_dataset, train_dataset_pp], axis=1), and the
\* same for eval: the feature columns are put beside the index columns.
ConcatenateDatasets ==
    /\ spc = "concatenate"
    /\ spc' = "trainer"
    /\ UNCHANGED <<main, csv, prepared, n_rows, pp, cacheOfScript, components>>

\* The trainer cell run as soon as ppf has returned.
CTCTrainerEarly ==
    /\ spc \in {"from_dict", "trainer"}
    /\ spc' = "train"
    /\ UNCHANGED <<main, csv, prepared, n_rows, pp, cacheOfScript, components>>

\* trainer = CTCTrainer(..., train_dataset=train_dataset, eval_dataset=...)
CTCTrainer ==
    /\ spc = "trainer"
    /\ spc' = "train"
    /\ UNCHANGED <<main, csv, prepared, n_rows, pp, cacheOfScript, components>>

\* trainer.train()
Train ==
    /\ spc = "train"
    /\ spc' = "trained"
    /\ UNCHANGED <<main, csv, prepared, n_rows, pp, cacheOfScript, components>>

\* The script has ended, by an exception or after training, and is started
\* again; the files on disk are what the earlier runs left.
Rerun ==
    /\ spc \in {"aborted", "trained"}
    /\ spc' = "check_index"
    /\ prepared' = FALSE
    /\ n_rows' = NoRows
    /\ pp' = [s \in Splits |-> NoColumns]
    /\ speech_list' = [speech_list EXCEPT ![Script] = <<>>]
    /\ UNCHANGED <<fs, pc, examples, split, branch, last, cacheHist,
                   main, csv, components>>

\* ============================================================ label indexer

\* A label is its string as the sequence of its letters' codes (a = 1, ...,
\* z = 26), so that Python's string order is the lexicographic order below.
angry == <<1, 14, 7, 18, 25>>
happy == <<8, 1, 16, 16, 25>>
sad == <<19, 1, 4>>
sa == <<19, 1>>
unknown == <<21, 14, 11, 14, 15, 23, 14>>
Labels == {angry, happy, sad, sa, unknown}

RECURSIVE LexLess(_, _)
\* s < t for Python strings
LexLess(s, t) ==
    IF t = <<>> THEN FALSE
    ELSE IF s = <<>> THEN TRUE
    ELSE IF Head(s) # Head(t) THEN Head(s) < Head(t)
    ELSE LexLess(Tail(s), Tail(t))

RECURSIVE Unique(_)
\* Dataset.unique(column): the distinct values in order of first appearance
Unique(col) ==
    IF col = <<>> THEN <<>>
    ELSE LET init == Unique(SubSeq(col, 1, Len(col) - 1))
             x == col[Len(col)]
         IN IF x \in Range(init) THEN init ELSE Append(init, x)

RECURSIVE Insert(_, _)
Insert(x, sorted) ==
    IF sorted = <<>> THEN <<x>>
    ELSE IF LexLess(x, Head(sorted)) THEN <<x>> \o sorted
    ELSE <<Head(sorted)>> \o Insert(x, Tail(sorted))

\* Sort left out: the list stays in order of first appearance.
KeepOrder(l) == l

RECURSIVE Sort(_)
\* list.sort(): ascending and stable (an element goes after its equals)
Sort(l) ==
    IF l = <<>> THEN <<>>
    ELSE Insert(l[Len(l)], Sort(SubSeq(l, 1, Len(l) - 1)))

\* the values label_to_id returns: an int, or the label itself (a str)
IntVal(i) == [type |-> "int", int |-> i, str |-> <<>>]
StrVal(l) == [type |-> "str", int |-> 0, str |-> l]
NoTarget == [type |-> "none", int |-> 0, str |-> <<>>]

\* list.index(label): 0-based position of the first element equal to label
Index(l, label) == (CHOOSE i \in 1..Len(l) : l[i] = label /\ \A j \in 1..(i - 1) : l[j] # label) - 1

\* label_to_id counting positions from 1.
label_to_id_from_one(label, list) ==
    IF Len(list) > 0
    THEN IF label \in Range(list) THEN IntVal(Index(list, label) + 1) ELSE IntVal(-1)
    ELSE StrVal(label)

label_to_id(label, list) ==
    IF Len(list) > 0
    THEN IF label \in Range(list) THEN IntVal(Index(list, label)) ELSE IntVal(-1)
    ELSE StrVal(label)

LabelIdle ==
    /\ train_labels = <<>>
    /\ label_list = <<>>
    /\ lpc = "start"
    /\ target = [label |-> <<>>, value |-> NoTarget]

\* label_list = train_dataset.unique(output_column); label_list.sort()
BuildVocabulary ==
    /\ lpc = "start"
    /\ label_list' = Sort(Unique(train_labels))
    /\ lpc' = "built"
    /\ UNCHANGED <<train_labels, target, notLabel>>

\* One element of [label_to_id(label, label_list) for label in examples['emotion']];
\* the examples are those of the training or of the validation split.
LabelToId ==
    /\ lpc = "built"
    /\ \E label \in Labels :
          target' = [label |-> label, value |-> label_to_id(label, label_list)]
    /\ UNCHANGED <<train_labels, label_list, lpc, notLabel>>

\* ========================================================= pooling strategy

\* A number of a float tensor, kept exact as the fraction num/den in lowest
\* terms with den > 0.
RECURSIVE GCD(_, _)
GCD(a, b) == IF b = 0 THEN a ELSE GCD(b, a % b)

Abs(x) == IF x < 0 THEN -x ELSE x

Rat(n, d) == LET g == GCD(Abs(n), d) IN [num |-> n \div g, den |-> d \div g]

\* hidden_states is indexed [utterance][frame][component]: dim 0 is the
\* batch, dim 1 the time axis, dim 2 the hidden width.
Frames == {<<1, 2>>, <<3, 4>>, <<5, 6>>, <<-2, 7>>}
BatchSizes == {1, 2}

RECURSIVE Sum(_)
Sum(s) == IF s = <<>> THEN 0 ELSE Head(s) + Sum(Tail(s))

RECURSIVE Max(_)
Max(s) ==
    IF Len(s) = 1 THEN s[1]
    ELSE LET m == Max(Tail(s)) IN IF Head(s) > m THEN Head(s) ELSE m

\* The values along dim 1 (time) of utterance b, component k.
AlongTime(hidden_states, b, k) ==
    [t \in 1..Len(hidden_states[b]) |-> hidden_states[b][t][k]]

Width(hidden_states) == Len(hidden_states[1][1])

TorchMean(v) == Rat(Sum(v), Len(v))
TorchSum(v) == Rat(Sum(v), 1)
TorchMax(v) == Rat(Max(v), 1)

TorchReduce(op, v) ==
    IF op = "mean" THEN TorchMean(v) ELSE IF op = "sum" THEN TorchSum(v) ELSE TorchMax(v)

\* The reduction with dim=0: over the utterances of the batch, frame by frame.
ReduceBatch(hidden_states, op) ==
    [t \in 1..Len(hidden_states[1]) |->
        [k \in 1..Width(hidden_states) |->
            TorchReduce(op, [b \in 1..Len(hidden_states) |-> hidden_states[b][t][k]])]]

\* torch.mean / torch.sum / torch.max(...)[0] with dim=1: the result is
\* indexed [utterance][component].
ReduceTime(hidden_states, op) ==
    [b \in 1..Len(hidden_states) |->
        [k \in 1..Width(hidden_states) |-> TorchReduce(op, AlongTime(hidden_states, b, k))]]

Returned(v) == [raised |-> FALSE, value |-> v]
Raised == [raised |-> TRUE, value |-> <<>>]
NotCalled == [raised |-> FALSE, value |-> <<>>]

merged_strategy(hidden_states, mode) ==
    IF mode = "mean" THEN Returned(ReduceTime(hidden_states, "mean"))
    ELSE IF mode = "sum" THEN Returned(ReduceTime(hidden_states, "sum"))
    ELSE IF mode = "max" THEN Returned(ReduceTime(hidden_states, "max"))
    ELSE Raised

Modes == {"mean", "sum", "max", "median"}

\* Every batch of BatchSizes utterances of one length 1..MaxFrames.
HiddenBatches ==
    UNION {[1..b -> [1..t -> Frames]] : b \in BatchSizes, t \in 1..MaxFrames}

PoolIdle ==
    /\ ms_in = [hidden_states |-> <<>>, mode |-> "mean"]
    /\ ms_out = NotCalled

\* merged_strategy is applied to the arguments drawn at the start.
MergedStrategy ==
    /\ ms_in.hidden_states # <<>>
    /\ ms_out = NotCalled
    /\ ms_out' = merged_strategy(ms_in.hidden_states, ms_in.mode)
    /\ UNCHANGED <<ms_in, notPool>>

\* ============================================================ model forward

None == "None"
ProblemTypes == {"regression", "single_label_classification", "multi_label_classification"}

\* torch dtypes a labels tensor may have: the 64-, 32- and 16-bit signed
\* integers and the 32-bit float.
Dtypes == {"torch.long", "torch.int", "torch.short", "torch.float"}

\* labels=None, or a tensor of a dtype and a shape: one class id per
\* utterance, or one row of num_labels entries per utterance.
NoLabels == [given |-> FALSE, dtype |-> "none", shape |-> "none"]
LabelTensors == [given : {TRUE}, dtype : Dtypes, shape : {"ids", "multi_hot"}]

ClassCounts == {1, 2, 4}

\* The encoder's outputs[0] for two inputs.
EncoderOutputs ==
    { << <<<<1, 2>>, <<3, 4>>>> >>,
      << <<<<5, 6>>>>, <<<<-2, 7>>>> >> }

NoLoss == [fct |-> "none"]
Loss(fct) == [fct |-> fct]

\* self.classifier(hidden_states): the head's weights are the framework's;
\* its output is kept as the pooled input it was computed from and its
\* number of columns.
Classifier(pooled, n) == [set |-> TRUE, of |-> pooled, classes |-> n]
NoLogits == [set |-> FALSE, of |-> <<>>, classes |-> 0]

\* The inference with torch.int left out of the dtype test.
InferLongOnly(n, labels) ==
    IF n = 1 THEN "regression"
    ELSE IF n > 1 /\ labels.dtype = "torch.long" THEN "single_label_classification"
    ELSE "multi_label_classification"

\* The problem type forward infers from the labels (lines 294-299).
InferProblemType(n, labels) ==
    IF n = 1 THEN "regression"
    ELSE IF n > 1 /\ (labels.dtype = "torch.long" \/ labels.dtype = "torch.int")
         THEN "single_label_classification"
    ELSE "multi_label_classification"

\* The labels block without its test that no problem type is set yet.
InferredOnEveryPass(pt, n, labels) ==
    IF labels.given THEN InferProblemType(n, labels) ELSE pt

\* The labels block without its test that labels were given.
InferredWithoutLabels(pt, n, labels) ==
    IF pt = None THEN InferProblemType(n, labels) ELSE pt

\* self.config.problem_type after the labels block of forward (lines 292-299).
ProblemTypeAfter(pt, n, labels) ==
    IF labels.given /\ pt = None THEN InferProblemType(n, labels) ELSE pt

\* The loss function applied for a problem type (lines 301-309).
LossFor(pt) ==
    IF pt = "regression" THEN Loss("MSELoss")
    ELSE IF pt = "single_label_classification" THEN Loss("CrossEntropyLoss")
    ELSE IF pt = "multi_label_classification" THEN Loss("BCEWithLogitsLoss")
    ELSE NoLoss

\* What forward hands back: with return_dict a SpeechClassifierOutput whose
\* loss field may be None, without it a tuple that starts with the loss only
\* when there is one.
Output(return_dict, loss, logits) ==
    IF return_dict
    THEN [form |-> "SpeechClassifierOutput", fields |-> {"loss", "logits"},
          loss |-> loss, logits |-> logits]
    ELSE [form |-> "tuple",
          fields |-> IF loss # NoLoss THEN {"loss", "logits"} ELSE {"logits"},
          loss |-> loss, logits |-> logits]
NoOutput == [form |-> "none", fields |-> {}, loss |-> NoLoss, logits |-> NoLogits]

\* forward calling merged_strategy without its mode argument.
DefaultMode(self_mode) == "mean"

\* The mode forward passes to merged_strategy (line 288).
ForwardMode(self_mode) == self_mode

NoForward ==
    [labels |-> NoLabels, before |-> None, raised |-> FALSE, output |-> NoOutput]

ModelIdle ==
    /\ pooling_mode = "mean"
    /\ num_labels = 1
    /\ problem_type = None
    /\ fwd = NoForward
    /\ calls = 0

\* One forward pass (lines 270-320).
Forward ==
    /\ calls < MaxCalls
    /\ calls' = calls + 1
    /\ \E hidden_states \in EncoderOutputs, labels \in {NoLabels} \cup LabelTensors,
          return_dict \in BOOLEAN :
          LET pooled == merged_strategy(hidden_states, ForwardMode(pooling_mode))
          IN IF pooled.raised
             THEN /\ fwd' = [labels |-> labels, before |-> problem_type,
                             raised |-> TRUE, output |-> NoOutput]
                  /\ UNCHANGED problem_type
             ELSE LET logits == Classifier(pooled.value, num_labels)
                      pt == ProblemTypeAfter(problem_type, num_labels, labels)
                      loss == IF labels.given THEN LossFor(pt) ELSE NoLoss
                  IN /\ problem_type' = pt
                     /\ fwd' = [labels |-> labels, before |-> problem_type,
                                raised |-> FALSE,
                                output |-> Output(return_dict, loss, logits)]
    /\ UNCHANGED <<pooling_mode, num_labels, notModel>>

\* ================================================================= collator

\* A number of a label: twice its value, so that halves are exact.
IntLabel(i) == [type |-> "int", twice |-> 2 * i]
FloatLabel(twice) == [type |-> "float", twice |-> twice]
LabelValues == {IntLabel(2), IntLabel(-1), FloatLabel(1)}

FeatureVectors == {<<7, 0, 9>>, <<1, 2, 3, 4, 5>>, <<0, 6>>, <<8>>, <<4, 4, 0>>}
Records == [input_values : FeatureVectors, labels : LabelValues]
Batches == UNION {[1..n -> Records] : n \in 1..MaxBatch}

\* The collator constructed with padding=False.
no_padding == "do_not_pad"

\* data_collator = DataCollatorCTCWithPadding(processor=processor, padding=True)
\* with the other fields at their defaults (lines 379-382, 403).
self_padding == "longest"
NoLength == -1
self_max_length == NoLength
self_pad_to_multiple_of == NoLength

MaxLen(vectors) == Max([i \in 1..Len(vectors) |-> Len(vectors[i])])

RoundUp(n, k) == IF k = NoLength \/ n % k = 0 THEN n ELSE (n \div k + 1) * k

\* The length processor.pad pads to, by the padding strategy (lines 359-375).
PadLength(vectors, padding, max_length, pad_to_multiple_of) ==
    IF padding = "longest" THEN RoundUp(MaxLen(vectors), pad_to_multiple_of)
    ELSE IF padding = "max_length" THEN RoundUp(max_length, pad_to_multiple_of)
    ELSE NoLength

PadRight(v, n) == IF n = NoLength \/ n <= Len(v) THEN v ELSE v \o Repeat(0, n - Len(v))
MaskRight(v, n) ==
    Repeat(1, Len(v)) \o (IF n = NoLength \/ n <= Len(v) THEN <<>> ELSE Repeat(0, n - Len(v)))

\* processor.pad(input_features, padding, max_length, pad_to_multiple_of):
\* zeros and mask 0 on the right of each vector up to the padded length.
Pad(input_features, padding, max_length, pad_to_multiple_of) ==
    LET n == PadLength(input_features, padding, max_length, pad_to_multiple_of)
    IN [input_values |-> [i \in 1..Len(input_features) |-> PadRight(input_features[i], n)],
        attention_mask |-> [i \in 1..Len(input_features) |-> MaskRight(input_features[i], n)]]

\* d_type = torch.long if isinstance(label_features[0], int) else torch.float
DType(label_features) ==
    IF label_features[1].type = "int" THEN "torch.long" ELSE "torch.float"

\* torch.tensor(label_features, dtype=d_type): a float goes to torch.long by
\* dropping its fraction.
Trunc(twice) == IF twice >= 0 THEN 2 * (twice \div 2) ELSE -(2 * ((-twice) \div 2))
Tensor(label_features, d_type) ==
    [dtype |-> d_type,
     twice |-> [i \in 1..Len(label_features) |->
                   IF d_type = "torch.long" THEN Trunc(label_features[i].twice)
                   ELSE label_features[i].twice]]

NoBatch == [called |-> FALSE, input_values |-> <<>>, attention_mask |-> <<>>,
            labels |-> [dtype |-> "none", twice |-> <<>>]]

CollateIdle ==
    /\ features = <<>>
    /\ batch = NoBatch

\* DataCollatorCTCWithPadding.__call__(features)
Collate ==
    /\ features # <<>>
    /\ ~batch.called
    /\ LET input_features == [i \in 1..Len(features) |-> features[i].input_values]
           label_features == [i \in 1..Len(features) |-> features[i].labels]
           d_type == DType(label_features)
           padded == Pad(input_features, self_padding, self_max_length,
                         self_pad_to_multiple_of)
       IN batch' = [called |-> TRUE, input_values |-> padded.input_values,
                    attention_mask |-> padded.attention_mask,
                    labels |-> Tensor(label_features, d_type)]
    /\ UNCHANGED <<features, notCollate>>

\* =========================================================== specifications

\* ---- the feature cache: one run of the script at a time
InitCache ==
    /\ CacheIdle
    /\ pc = [r \in Runs |-> IF r = 1 THEN "idle" ELSE "off"]
    /\ LabelIdle /\ PoolIdle /\ ModelIdle /\ CollateIdle /\ ScriptIdle

NextCache ==
    \E r \in Runs :
        \/ Call(r)
        \/ Exists(r)
        \/ Load(r)
        \/ Decode(r)
        \/ SaveOpen(r)
        \/ SaveWrite(r)
        \/ Return(r)
        \/ Restart(r)

SpecCache == InitCache /\ [][NextCache]_vars

\* ---- the feature cache under two runs of the script at once: both have
\* loaded the same index file and have entered ppf(train_dataset, 'train')
InitRace ==
    /\ fs = [s \in Splits |-> Absent]
    /\ \E ps \in PathSeqs : examples = [r \in Runs |-> ps]
    /\ split = [r \in Runs |-> "train"]
    /\ speech_list = [r \in Runs |-> <<>>]
    /\ branch = [r \in Runs |-> "none"]
    /\ last = [s \in Splits |-> NoResult]
    /\ found = [r \in Runs |-> Absent]
    /\ decoded = [r \in Runs |-> <<>>]
    /\ writes = [r \in Runs |-> 0]
    /\ pc = [r \in Runs |-> "exists"]
    /\ LabelIdle /\ PoolIdle /\ ModelIdle /\ CollateIdle /\ ScriptIdle

NextRace ==
    \E r \in Runs :
        \/ Exists(r)
        \/ Load(r)
        \/ Decode(r)
        \/ SaveOpen(r)
        \/ SaveWrite(r)

SpecRace == InitRace /\ [][NextRace]_vars

\* ---- the script from its first line to trainer.train(), run again and
\* again over the files the earlier runs left
InitScript ==
    /\ CacheIdle
    /\ pc = [r \in Runs |-> IF r = Script THEN "idle" ELSE "off"]
    /\ spc = "check_index"
    /\ main \in BOOLEAN
    /\ csv \in [train : BOOLEAN, test : BOOLEAN]
    /\ prepared = FALSE
    /\ n_rows = NoRows
    /\ pp = [s \in Splits |-> NoColumns]
    /\ LabelIdle /\ PoolIdle /\ ModelIdle /\ CollateIdle

NextScript ==
    \/ CheckIndex
    \/ PrepareDataPaths
    \/ LoadDataset
    \/ CallPpf
    \/ Exists(Script)
    \/ Load(Script)
    \/ Decode(Script)
    \/ SaveOpen(Script)
    \/ SaveWrite(Script)
    \/ ReturnFromPpf
    \/ RaiseFromPpf
    \/ FromDict
    \/ AssertLengths
    \/ ConcatenateDatasets
    \/ CTCTrainer
    \/ Train
    \/ Rerun

SpecScript == InitScript /\ [][NextScript]_vars

\* ---- the label indexer: every training column up to MaxTrain labels
InitLabel ==
    /\ train_labels \in SeqsUpTo(Labels, MaxTrain)
    /\ label_list = <<>>
    /\ lpc = "start"
    /\ target = [label |-> <<>>, value |-> NoTarget]
    /\ CacheIdle /\ pc = [r \in Runs |-> "off"]
    /\ PoolIdle /\ ModelIdle /\ CollateIdle /\ ScriptIdle

NextLabel ==
    \/ BuildVocabulary
    \/ LabelToId

SpecLabel == InitLabel /\ [][NextLabel]_vars

\* ---- the pooling strategy: every hidden-state batch and mode
InitPool ==
    /\ ms_in \in [hidden_states : HiddenBatches, mode : Modes]
    /\ ms_out = NotCalled
    /\ CacheIdle /\ pc = [r \in Runs |-> "off"]
    /\ LabelIdle /\ ModelIdle /\ CollateIdle /\ ScriptIdle

NextPool == MergedStrategy

SpecPool == InitPool /\ [][NextPool]_vars

\* ---- the model: every configuration, MaxCalls forward passes
InitModel ==
    /\ pooling_mode \in Modes
    /\ num_labels \in ClassCounts
    /\ problem_type \in {None} \cup ProblemTypes
    /\ fwd = NoForward
    /\ calls = 0
    /\ CacheIdle /\ pc = [r \in Runs |-> "off"]
    /\ LabelIdle /\ PoolIdle /\ CollateIdle /\ ScriptIdle

NextModel == Forward

SpecModel == InitModel /\ [][NextModel]_vars

\* ---- the collator: every batch of 1..MaxBatch records
InitCollate ==
    /\ features \in Batches
    /\ batch = NoBatch
    /\ CacheIdle /\ pc = [r \in Runs |-> "off"]
    /\ LabelIdle /\ PoolIdle /\ ModelIdle /\ ScriptIdle

NextCollate == Collate

SpecCollate == InitCollate /\ [][NextCollate]_vars

\* =================================================================== claims

\* ---- feature cache

\* The waveform of each decodable audio file at the target rate, written out.
WaveformOf(path) == IF path = "a.wav" THEN <<1, 2>> ELSE <<3, 3, 4, 4>>

MatchesPaths(r) ==
    /\ Len(speech_list[r]) = Len(examples[r])
    /\ \A i \in 1..Len(examples[r]) : speech_list[r][i] = WaveformOf(examples[r][i])

\* C1: whenever the feature cache step has produced speech_list, loaded or
\* built, it has one entry per input path and entry i is the waveform of
\* path i.  (Fails on the load branch: the file of an earlier call for the
\* split is returned whatever the paths of this call.)
C1_LoadedOrBuilt == \A r \in Runs : pc[r] = "cached" => MatchesPaths(r)

\* C1 on the build branch alone: a speech_list built by decoding (no cache
\* file existed for the split) has one entry per input path, entry i the
\* waveform of path i.
C1_Built == \A r \in Runs : pc[r] = "cached" /\ branch[r] = "build" => MatchesPaths(r)

\* A build of two paths whose waveforms differ, in the order b, a.
C1_Witness ==
    \E r \in Runs :
        /\ pc[r] = "cached" /\ branch[r] = "build"
        /\ examples[r] = <<"b.wav", "a.wav">>
        /\ speech_list[r] = << <<3, 3, 4, 4>>, <<1, 2>> >>

\* C2: a call that finds the cache file of its split as the previous completed
\* call for that split left it returns the sequence that call returned.
C2_SameOnCacheHit ==
    \A r \in Runs :
        (/\ pc[r] = "cached"
         /\ last[split[r]].set
         /\ last[split[r]].file.state = "complete"
         /\ fs[split[r]] = last[split[r]].file)
        => speech_list[r] = last[split[r]].result

\* A second call for a split, with other paths than the file was built from.
C2_Witness ==
    \E r \in Runs :
        /\ pc[r] = "cached" /\ branch[r] = "load"
        /\ last[split[r]].set /\ fs[split[r]] = last[split[r]].file
        /\ speech_list[r] = last[split[r]].result
        /\ Len(examples[r]) # Len(speech_list[r])

IsPrefix(s, t) == Len(s) <= Len(t) /\ s = SubSeq(t, 1, Len(s))

\* C12: a call whose exists test found a cache file for its split hands no
\* path to the decoder and never enters np.save; when its feature cache step
\* is over, the file is as it was found and speech_list is the rows of that
\* file, whatever the paths of the call.
C12_CacheHit ==
    \A r \in Runs :
        found[r].state # "absent" =>
            /\ branch[r] = "load"
            /\ decoded[r] = <<>>
            /\ writes[r] = 0
            /\ fs[split[r]] = found[r]
            /\ pc[r] = "cached" => speech_list[r] = NpList(found[r].arr)

\* A hit on a file of two waveforms by a call whose one path cannot even be
\* decoded.
C12_Witness ==
    \E r \in Runs :
        /\ pc[r] = "cached"
        /\ found[r].state = "complete"
        /\ examples[r] = <<"bad.wav">>
        /\ speech_list[r] = << <<1, 2>>, <<3, 3, 4, 4>> >>
        /\ decoded[r] = <<>> /\ writes[r] = 0

\* C13: a build that fails on a path has handed the decoder the paths up to
\* that one, each once and in order, and no path after it; it has no result,
\* has never entered np.save, and the cache file of its split is absent.  No
\* call ever takes the load branch on a file that is not written in full.
C13_FailedBuild ==
    \A r \in Runs :
        /\ (pc[r] = "failed" /\ branch[r] = "build") =>
              /\ speech_list[r] = <<>>
              /\ writes[r] = 0
              /\ fs[split[r]] = Absent
              /\ decoded[r] # <<>> /\ IsPrefix(decoded[r], examples[r])
              /\ \A i \in 1..Len(decoded[r]) :
                    CanDecode(decoded[r][i]) <=> i < Len(decoded[r])
        /\ branch[r] = "load" => found[r].state = "complete"

\* A build that decodes its first path and fails on its second.
C13_Witness ==
    \E r \in Runs :
        /\ pc[r] = "failed" /\ branch[r] = "build"
        /\ examples[r] = <<"a.wav", "bad.wav">>
        /\ decoded[r] = <<"a.wav", "bad.wav">>
        /\ fs[split[r]] = Absent

\* C14: a build hands the decoder the paths in input order, each once, and
\* enters np.save once, after the last path and before its feature cache
\* step is over; the file then is written in full and its rows are the
\* sequence the call goes on with.  Once a call for a split has completed,
\* every later call for that split takes the load branch and gets the
\* sequence that call returned.
C14_BuildOnce ==
    \A r \in Runs :
        /\ pc[r] \in {"decode", "save"} =>
              /\ writes[r] = 0
              /\ IsPrefix(decoded[r], examples[r])
              /\ Len(speech_list[r]) = Len(decoded[r])
              /\ fs[split[r]] = Absent
        /\ pc[r] = "save" => decoded[r] = examples[r]
        /\ pc[r] = "saving" =>
              decoded[r] = examples[r] /\ writes[r] = 1 /\ fs[split[r]] = Partial
        /\ (pc[r] = "cached" /\ branch[r] = "build") =>
              /\ decoded[r] = examples[r]
              /\ writes[r] = 1
              /\ MatchesPaths(r)
              /\ fs[split[r]].state = "complete"
              /\ NpList(fs[split[r]].arr) = speech_list[r]
        /\ (pc[r] \in {"load", "decode", "cached"} /\ last[split[r]].set) =>
              /\ branch[r] = "load"
              /\ pc[r] = "cached" => speech_list[r] = last[split[r]].result

\* A build of two paths whose waveforms differ in length, its file written.
C14_Witness ==
    \E r \in Runs :
        /\ pc[r] = "cached" /\ branch[r] = "build"
        /\ examples[r] = <<"b.wav", "a.wav">>
        /\ decoded[r] = <<"b.wav", "a.wav">>
        /\ writes[r] = 1
        /\ NpList(fs[split[r]].arr) = << <<3, 3, 4, 4>>, <<1, 2>> >>

\* C15: no step of ppf waits for the other run: a run at the exists test, at
\* np.load, at a decode or at either step of np.save can always take that
\* step, whatever the other run is doing to the file.
C15_NoLock ==
    \A r \in Runs :
        /\ pc[r] = "exists" => ENABLED Exists(r)
        /\ pc[r] = "load" => ENABLED Load(r)
        /\ pc[r] = "decode" => ENABLED Decode(r)
        /\ pc[r] = "save" => ENABLED SaveOpen(r)
        /\ pc[r] = "saving" => ENABLED SaveWrite(r)

\* One run has found the file of the split and np.load has read it while the
\* other run is between the two steps of np.save: the file is not written
\* in full and the read has failed.
C15_ReadOfPartialFile ==
    \E r, w \in Runs :
        /\ r # w /\ split[r] = split[w]
        /\ pc[w] = "saving" /\ fs[split[w]] = Partial
        /\ found[r].state = "partial" /\ branch[r] = "load"
        /\ pc[r] = "failed"

\* ---- label indexer

\* s < t as Python orders strings: at the first position where they differ
\* s has the smaller letter, or s is a proper prefix of t.
StrLess(s, t) ==
    \E k \in 1..(Len(t)) :
        /\ k <= Len(s) + 1
        /\ \A j \in 1..(k - 1) : s[j] = t[j]
        /\ (k = Len(s) + 1 \/ s[k] < t[k])

\* C3: the vocabulary holds exactly the distinct training labels, in strictly
\* ascending lexicographic order (so no label twice, and one vocabulary per
\* set of labels whatever their order); happy, sad, happy, angry gives angry,
\* happy, sad.
C3_Vocabulary ==
    lpc = "built" =>
        /\ Range(label_list) = Range(train_labels)
        /\ \A i \in 1..(Len(label_list) - 1) : StrLess(label_list[i], label_list[i + 1])
        /\ (train_labels = <<happy, sad, happy, angry>> => label_list = <<angry, happy, sad>>)

C3_Witness ==
    /\ lpc = "built"
    /\ train_labels = <<happy, sad, happy, angry>>
    /\ label_list = <<angry, happy, sad>>

Called == target.value.type # "none"

IndexOrSentinel ==
    /\ target.value.type = "int"
    /\ target.label \in Range(label_list) =>
          /\ target.value.int \in 0..(Len(label_list) - 1)
          /\ label_list[target.value.int + 1] = target.label
    /\ target.label \notin Range(label_list) => target.value.int = -1

\* C4 as stated: for every vocabulary, the empty one included, label_to_id
\* returns an integer: the 0-based position of the label, or -1.
C4_AnyVocabulary == Called => IndexOrSentinel

\* C4 as amended: for a non-empty vocabulary label_to_id returns the 0-based
\* position of the label, or -1 when the label is not in it; for the empty
\* vocabulary it returns the label itself, a string.
C4_NonEmptyVocabulary ==
    Called =>
        /\ label_list # <<>> => IndexOrSentinel
        /\ label_list = <<>> => target.value = [type |-> "str", int |-> 0, str |-> target.label]

C4_Witness ==
    /\ label_list = <<angry, happy, sad>>
    /\ target.label = sad
    /\ target.value = [type |-> "int", int |-> 2, str |-> <<>>]

\* ---- pooling strategy

ValidModes == {"mean", "sum", "max"}

\* The column of utterance b, component k: its values over the frames.
Column(b, k) == {<<t, ms_in.hidden_states[b][t][k]>> : t \in 1..Len(ms_in.hidden_states[b])}

RECURSIVE Total(_)
Total(col) ==
    IF col = {} THEN 0
    ELSE LET e == CHOOSE x \in col : TRUE IN e[2] + Total(col \ {e})

Pooled(b, k) == ms_out.value[b][k]

\* C5: merged_strategy returns one vector per utterance, of the hidden width,
\* whose component k is the mean, the sum or the maximum over the frames of
\* component k of that utterance; [[1,2],[3,4],[5,6]] gives [3,4], [9,12] and
\* [5,6].
C5_Pooling ==
    (ms_out # NotCalled /\ ms_in.mode \in ValidModes) =>
        LET hs == ms_in.hidden_states
            example == hs = << <<<<1, 2>>, <<3, 4>>, <<5, 6>>>> >>
            ints(a, b) == << <<[num |-> a, den |-> 1], [num |-> b, den |-> 1]>> >>
        IN /\ ~ms_out.raised
           /\ Len(ms_out.value) = Len(hs)
           /\ \A b \in 1..Len(hs) :
                 /\ Len(ms_out.value[b]) = Len(hs[b][1])
                 /\ \A k \in 1..Len(hs[b][1]) :
                       /\ Pooled(b, k).den > 0
                       /\ ms_in.mode = "mean" =>
                             Pooled(b, k).num * Len(hs[b]) = Pooled(b, k).den * Total(Column(b, k))
                       /\ ms_in.mode = "sum" =>
                             Pooled(b, k) = [num |-> Total(Column(b, k)), den |-> 1]
                       /\ ms_in.mode = "max" =>
                             /\ Pooled(b, k).den = 1
                             /\ \E e \in Column(b, k) : e[2] = Pooled(b, k).num
                             /\ \A e \in Column(b, k) : e[2] <= Pooled(b, k).num
           /\ example /\ ms_in.mode = "mean" => ms_out.value = ints(3, 4)
           /\ example /\ ms_in.mode = "sum" => ms_out.value = ints(9, 12)
           /\ example /\ ms_in.mode = "max" => ms_out.value = ints(5, 6)

\* A batch of two utterances of three frames whose means are not integers.
C5_Witness ==
    /\ ms_in.mode = "mean"
    /\ ms_in.hidden_states = << <<<<1, 2>>, <<3, 4>>, <<-2, 7>>>>,
                                <<<<5, 6>>, <<5, 6>>, <<3, 4>>>> >>
    /\ ms_out.value = << <<[num |-> 2, den |-> 3], [num |-> 13, den |-> 3]>>,
                         <<[num |-> 13, den |-> 3], [num |-> 16, den |-> 3]>> >>

\* ---- model forward

\* C6: with a pooling mode other than mean, sum and max every forward pass
\* raises and hands back nothing, neither logits nor a loss.
C6_InvalidModeRaises ==
    (calls > 0 /\ pooling_mode \notin ValidModes) =>
        /\ fwd.raised
        /\ fwd.output = NoOutput

C6_Witness ==
    /\ pooling_mode = "median"
    /\ calls >= 2
    /\ fwd.raised
    /\ fwd.labels.given

\* The last pass received labels while no problem type was set, and did not raise.
Inferred == calls > 0 /\ fwd.before = None /\ fwd.labels.given /\ ~fwd.raised

Chose(pt, fct) == problem_type = pt /\ fwd.output.loss = [fct |-> fct]

SelectedBy(singleLabelDtypes) ==
    /\ num_labels = 1 => Chose("regression", "MSELoss")
    /\ num_labels > 1 /\ fwd.labels.dtype \in singleLabelDtypes =>
          Chose("single_label_classification", "CrossEntropyLoss")
    /\ num_labels > 1 /\ fwd.labels.dtype \notin singleLabelDtypes =>
          Chose("multi_label_classification", "BCEWithLogitsLoss")

\* The integer dtypes among Dtypes.
IntegerDtypes == {"torch.long", "torch.int", "torch.short"}

\* C7 as stated: with no problem type configured and labels given, forward
\* selects regression for one class, single-label classification for more
\* classes and integer-typed labels, multi-label classification for more
\* classes and labels that are not integer-typed, with the losses MSE,
\* cross-entropy and BCE-with-logits.
C7_IntegerTyped == Inferred => SelectedBy(IntegerDtypes)

\* C7 as amended: single-label classification is selected for more than one
\* class and labels of dtype torch.long or torch.int, multi-label
\* classification for more than one class and labels of any other dtype
\* (the other integer dtypes included).
C7_LongOrInt == Inferred => SelectedBy({"torch.long", "torch.int"})

\* Four classes and 16-bit integer labels: the multi-label path.
C7_Witness ==
    /\ Inferred
    /\ num_labels = 4
    /\ fwd.labels.dtype = "torch.short"
    /\ Chose("multi_label_classification", "BCEWithLogitsLoss")

\* C8: once the problem type has a value, no forward pass changes it.
C8_InferredOnce == [][problem_type # None => problem_type' = problem_type]_vars

\* A pass with labels, after the problem type was set, for which the
\* inference would have chosen another type.
C8_Witness ==
    /\ calls >= 2
    /\ fwd.before # None
    /\ fwd.labels.given /\ ~fwd.raised
    /\ InferProblemType(num_labels, fwd.labels) # fwd.before
    /\ problem_type = fwd.before

\* C9: a forward pass without labels (the pooling mode being a valid one)
\* raises nothing, hands back logits and no loss, and leaves the problem
\* type as it was.
C9_NoLabels ==
    (calls > 0 /\ ~fwd.labels.given) =>
        /\ problem_type = fwd.before
        /\ pooling_mode \in ValidModes =>
              /\ ~fwd.raised
              /\ fwd.output.logits.set
              /\ "logits" \in fwd.output.fields
              /\ fwd.output.loss = NoLoss
              /\ fwd.output.form = "tuple" => "loss" \notin fwd.output.fields

\* An inference-only pass of a model whose problem type is not set.
C9_Witness ==
    /\ calls > 0 /\ ~fwd.labels.given
    /\ ~fwd.raised
    /\ fwd.before = None /\ problem_type = None
    /\ fwd.output.logits.set
    /\ fwd.output.loss = NoLoss

\* ---- collator

Lengths == {Len(features[i].input_values) : i \in 1..Len(features)}
Longest == CHOOSE n \in Lengths : \A m \in Lengths : m <= n

\* C10: every returned vector has the length of the longest vector of the
\* batch, starts with the original vector, and its attention mask is 1 on the
\* original positions and 0 on the added ones; lengths 3, 5, 2 give length 5
\* and the mask 1,1,1,0,0 for the first vector.
C10_PadToLongest ==
    batch.called =>
        /\ Len(batch.input_values) = Len(features)
        /\ Len(batch.attention_mask) = Len(features)
        /\ \A i \in 1..Len(features) :
              LET v == features[i].input_values
              IN /\ Len(batch.input_values[i]) = Longest
                 /\ Len(batch.attention_mask[i]) = Longest
                 /\ SubSeq(batch.input_values[i], 1, Len(v)) = v
                 /\ \A j \in 1..Longest :
                       batch.attention_mask[i][j] = IF j <= Len(v) THEN 1 ELSE 0

C10_Witness ==
    /\ batch.called
    /\ Len(features) = 3
    /\ features[1].input_values = <<7, 0, 9>>
    /\ features[2].input_values = <<1, 2, 3, 4, 5>>
    /\ features[3].input_values = <<0, 6>>
    /\ batch.input_values[1] = <<7, 0, 9, 0, 0>>
    /\ batch.attention_mask[1] = <<1, 1, 1, 0, 0>>
    /\ batch.attention_mask[3] = <<1, 1, 0, 0, 0>>

AllInt == \A i \in 1..Len(features) : features[i].labels.type = "int"

\* C11: the labels tensor of a batch has one entry per record, entry i the
\* label of record i unchanged, and its dtype is torch.long when every label
\* of the batch is an integer and torch.float otherwise.  (Fails on a batch
\* whose first label is an integer and a later one is not: the dtype follows
\* the first record and the later label loses its fraction.)
C11_StackedAsIs ==
    batch.called =>
        /\ Len(batch.labels.twice) = Len(features)
        /\ \A i \in 1..Len(features) : batch.labels.twice[i] = features[i].labels.twice
        /\ batch.labels.dtype = IF AllInt THEN "torch.long" ELSE "torch.float"

\* The labels 2 and 0.5 in this order come back as the torch.long tensor 2, 0.
C11_Mixed ==
    /\ batch.called
    /\ Len(features) = 2
    /\ features[1].labels = IntLabel(2)
    /\ features[2].labels = FloatLabel(1)
    /\ batch.labels = [dtype |-> "torch.long", twice |-> <<4, 0>>]

\* ---- the script

\* C16: once the trainer is constructed, and so when trainer.train() is
\* called, each split has as many feature entries as it has rows; a run
\* whose ppf returned another number of entries for a split than the split
\* has rows gets no further than Dataset.from_dict for that split.
C16_TrainsOnMatchingLengths ==
    /\ spc \in {"train", "trained"} =>
          \A s \in Splits : pp[s].kind = "Dataset" /\ pp[s].input_values = n_rows[s]
    /\ \A s \in Splits :
          (pp[s].kind # "none" /\ pp[s].input_values # n_rows[s]) =>
              spc \in {"from_dict", "aborted"}

\* A run that found, for its one training row, a cache file of two entries
\* left by an earlier run, and has ended on it.
C16_Witness ==
    /\ spc = "aborted"
    /\ n_rows["train"] = 1
    /\ branch[Script] = "load"
    /\ pp["train"].kind = "BatchFeature"
    /\ pp["train"].input_values = 2

\* C17: run as the main program, the script imports prepare_data_paths exactly
\* when train.csv or test.csv is missing.  (Fails with train.csv present and
\* test.csv missing: line 23 tests train.csv twice and the import is skipped.)
C17_PreparedWhenEitherMissing ==
    main =>
        /\ spc = "import" => ~(csv.train /\ csv.test)
        /\ (spc = "load_dataset" /\ ~prepared) => (csv.train /\ csv.test)

\* The script is past line 24 without the import, test.csv missing.
C17_SkippedWithoutTestIndex ==
    /\ main
    /\ spc = "load_dataset" /\ ~prepared
    /\ csv = [train |-> TRUE, test |-> FALSE]

====
